---- MODULE Spec2Model ----
(***************************************************************************)
(* Model of rusqlite-helper (src/src/lib.rs): the Table descriptor with    *)
(* create / insert / query, the catalog function tables(), and the part of *)
(* the SQLite engine and of serde_rusqlite these functions drive.          *)
(*                                                                         *)
(* The database holds one user table name with the schema                  *)
(*   k TEXT PRIMARY KEY, v TEXT                                            *)
(* whose rows are kept in rowid order, which is the order an unordered     *)
(* SELECT returns them in.  NULL is written 0.                             *)
(***************************************************************************)
EXTENDS Integers, Sequences, FiniteSets, TLC

VARIABLES db, before, call, res, stmts, again

vars == <<db, before, call, res, stmts, again>>

(* ------------------------------ bounds --------------------------------- *)

NumKeys == 2
NumVals == 1

Keys == 1..NumKeys
\* a column value: 0 is NULL (a None field), the others are texts
Values == 0..NumVals

(* ------------------------------ data ----------------------------------- *)

Names == {"accounts"}

\* what a caller may put in the `tables` argument of create
SnapshotNames == Names \cup {"sqlite_schema"}

GoodDef == "k TEXT PRIMARY KEY, v TEXT"
BadDef == "k TEXT PRIMARY KEY,"
Defs == {GoodDef, BadDef}

\* pub struct Table { name, def }
Table == [name : Names, def : Defs]

new(name, def) == [name |-> name, def |-> def]

NoFrag == ""
DoNothing == "ON CONFLICT(k) DO NOTHING"
DoUpdate == "ON CONFLICT(k) DO UPDATE SET v = excluded.v"
Frags == {DoNothing, DoUpdate}

\* enum InsertConflictResolution
InsertConflictResolution ==
    [kind : {"None", "Ignore", "Abort", "Replace"}, frag : {NoFrag}]
        \cup [kind : {"Upsert"}, frag : Frags]

\* the `row: impl Serialize` argument of insert: a struct with the fields
\* k and v, a struct with the fields k and w (w is no column and not in the
\* field list), or a value that is no struct
Records ==
    [shape : {"kv"}, k : Keys, v : Values]
        \cup {[shape |-> "kw", k |-> 0, v |-> 0],
              [shape |-> "scalar", k |-> 0, v |-> 0]}

FieldLists == {<<"k", "v">>}

WhereAll == ""
WhereKey == "WHERE k = ?1"
WhereBad == "WHERE"
Wheres == {WhereAll, WhereKey, WhereBad}

\* the positional parameters of query
ParamLists == {<<>>} \cup {<<k>> : k \in Keys}

\* the target type D of query:
\*   Account  { k: String, v: Option<String> }
\*   Strict   { k: String, v: String }
\*   Mismatch { k: String, w: String }
DTypes == {"Account", "Strict", "Mismatch"}

Range(s) == {s[i] : i \in DOMAIN s}

(* ------------------------------ results -------------------------------- *)

\* Result<_, RusqliteHelperError>, or the unwinding of a panic
OkUnit == [status |-> "Ok", err |-> "", flag |-> FALSE, rows |-> <<>>, names |-> {}]
OkBool(b) == [status |-> "Ok", err |-> "", flag |-> b, rows |-> <<>>, names |-> {}]
OkRows(s) == [status |-> "Ok", err |-> "", flag |-> FALSE, rows |-> s, names |-> {}]
OkNames(S) == [status |-> "Ok", err |-> "", flag |-> FALSE, rows |-> <<>>, names |-> S]
Err(e) == [status |-> "Err", err |-> e, flag |-> FALSE, rows |-> <<>>, names |-> {}]
Panic == [status |-> "Panic", err |-> "", flag |-> FALSE, rows |-> <<>>, names |-> {}]

(* ------------------------------ statements ----------------------------- *)

Stmt(kind, name, def, or, fields, tail) ==
    [kind |-> kind, name |-> name, def |-> def, or |-> or,
     fields |-> fields, tail |-> tail]

PragmaSql == Stmt("PRAGMA", "table_list", "", "", <<>>, "")
DropSql(name) == Stmt("DROP", name, "", "", <<>>, "")
CreateSql(name, def) == Stmt("CREATE", name, def, "", <<>>, "")
SelectSql(name, where) == Stmt("SELECT", name, "", "", <<>>, where)

\* the placeholders of the VALUES list: ":" in front of fields.join(", :")
Placeholders(fields) == {":" \o fields[i] : i \in DOMAIN fields}

(* ------------------------------ the engine ----------------------------- *)

\* one table of the database: whether it exists, and its rows in rowid order
EmptyTable == [exists |-> TRUE, rows |-> <<>>]
Absent == [exists |-> FALSE, rows |-> <<>>]

HasKey(rows, k) == \E i \in DOMAIN rows : rows[i].k = k

Without(rows, k) == SelectSeq(rows, LAMBDA r : r.k # k)

Updated(rows, row) ==
    [i \in DOMAIN rows |-> IF rows[i].k = row.k THEN row ELSE rows[i]]

Fail(d) == [ok |-> FALSE, db |-> d, n |-> 0, rows |-> <<>>]
Done(d, n) == [ok |-> TRUE, db |-> d, n |-> n, rows |-> <<>>]

\* the catalog as PRAGMA table_list reports it: (schema, name, type)
Catalog(d) ==
    {<<"main", n, "table">> : n \in {m \in Names : d[m].exists}}
        \cup {<<"main", "sqlite_schema", "table">>,
              <<"main", "recent", "view">>}

\* DROP TABLE name: fails when there is no such table
ExecDrop(d, sql) ==
    IF d[sql.name].exists
    THEN Done([d EXCEPT ![sql.name] = Absent], 0)
    ELSE Fail(d)

\* CREATE TABLE name (def): fails on a malformed definition and when the
\* table already exists
ExecCreate(d, sql) ==
    IF sql.def # GoodDef \/ d[sql.name].exists
    THEN Fail(d)
    ELSE Done([d EXCEPT ![sql.name] = EmptyTable], 0)

\* the row an INSERT offers: a placeholder no parameter is bound to is NULL
Offered(sql, p) ==
    [k |-> p.k,
     v |-> IF ":v" \in Placeholders(sql.fields) /\ ":v" \in p.names
           THEN p.v ELSE 0]

\* INSERT [OR or] INTO name (fields) VALUES (placeholders) [tail], with the
\* named parameters p; n is the number of rows changed
ExecInsert(d, sql, p) ==
    LET t == d[sql.name]
        row == Offered(sql, p)
        put(rows) == Done([d EXCEPT ![sql.name].rows = rows], 1)
    IN  IF \/ ~t.exists
           \/ sql.tail \notin {NoFrag, DoNothing, DoUpdate}
           \/ ~(p.names \subseteq Placeholders(sql.fields))
        THEN Fail(d)
        ELSE IF ~HasKey(t.rows, row.k)
        THEN put(Append(t.rows, row))
        ELSE IF sql.or = "IGNORE" THEN Done(d, 0)
        ELSE IF sql.or = "REPLACE" THEN put(Append(Without(t.rows, row.k), row))
        ELSE IF sql.or = "ABORT" THEN Fail(d)
        ELSE IF sql.tail = DoNothing THEN Done(d, 0)
        ELSE IF sql.tail = DoUpdate THEN put(Updated(t.rows, row))
        ELSE Fail(d)

\* SELECT * FROM name where, with the positional parameters params
ExecSelect(d, sql, params) ==
    LET t == d[sql.name]
    IN  IF \/ ~t.exists
           \/ sql.tail = WhereBad
           \/ Len(params) # (IF sql.tail = WhereKey THEN 1 ELSE 0)
        THEN Fail(d)
        ELSE [ok |-> TRUE, db |-> d, n |-> 0,
              rows |-> IF sql.tail = WhereKey
                       THEN SelectSeq(t.rows, LAMBDA r : r.k = params[1])
                       ELSE t.rows]

(* ------------------------------ serde_rusqlite ------------------------- *)

\* to_params_named: the fields of a struct as parameters named ":field";
\* an error for a value that is no struct
to_params_named(row) ==
    [ok |-> row.shape # "scalar",
     names |-> CASE row.shape = "kv" -> {":k", ":v"}
                 [] row.shape = "kw" -> {":k", ":w"}
                 [] OTHER -> {},
     k |-> row.k, v |-> row.v]

\* from_row::<D>: Strict has no place for a NULL v, Mismatch wants a
\* column the table does not have
from_row(dtype, r) ==
    [ok |-> \/ dtype = "Account"
            \/ dtype = "Strict" /\ r.v # 0,
     val |-> [type |-> dtype, k |-> r.k, v |-> r.v]]

(* ------------------------------ the operations ------------------------ *)

\* what a call leaves: the database, the value returned, and the statements
\* handed to the engine, in order
Outcome(d, r, issued) == [db |-> d, res |-> r, stmts |-> issued]

\* pub fn tables: the names of the catalog entries of type "table"
tables(d) ==
    Outcome(d, OkNames({e[2] : e \in {c \in Catalog(d) : c[3] = "table"}}),
            <<PragmaSql>>)

\* create that forgets the DROP
create_no_drop(d, t, existing, force) ==
    LET exists == t.name \in existing
        cr == ExecCreate(d, CreateSql(t.name, t.def))
    IN  IF ~exists \/ force
        THEN Outcome(cr.db, IF cr.ok THEN OkUnit ELSE Err("SQLite"),
                     <<CreateSql(t.name, t.def)>>)
        ELSE Outcome(d, OkUnit, <<>>)

\* create that recreates whenever the table is in the snapshot
create_always(d, t, existing, force) ==
    LET exists == t.name \in existing
        dr == ExecDrop(d, DropSql(t.name))
        cr == ExecCreate(IF exists THEN dr.db ELSE d, CreateSql(t.name, t.def))
    IN  IF exists /\ ~dr.ok
        THEN Outcome(dr.db, Err("SQLite"), <<DropSql(t.name)>>)
        ELSE Outcome(cr.db, IF cr.ok THEN OkUnit ELSE Err("SQLite"),
                     IF exists
                     THEN <<DropSql(t.name), CreateSql(t.name, t.def)>>
                     ELSE <<CreateSql(t.name, t.def)>>)

\* create that drops an existing table and leaves it at that
create_drop_only(d, t, existing, force) ==
    LET exists == t.name \in existing
        dr == ExecDrop(d, DropSql(t.name))
        cr == ExecCreate(d, CreateSql(t.name, t.def))
    IN  IF ~exists \/ force
        THEN IF exists
             THEN Outcome(dr.db, IF dr.ok THEN OkUnit ELSE Err("SQLite"),
                          <<DropSql(t.name)>>)
             ELSE Outcome(cr.db, IF cr.ok THEN OkUnit ELSE Err("SQLite"),
                          <<CreateSql(t.name, t.def)>>)
        ELSE Outcome(d, OkUnit, <<>>)

\* create that does not look at the result of the DROP
create_drop_unchecked(d, t, existing, force) ==
    LET exists == t.name \in existing
        dr == ExecDrop(d, DropSql(t.name))
        cr == ExecCreate(IF exists THEN dr.db ELSE d, CreateSql(t.name, t.def))
    IN  IF ~exists \/ force
        THEN Outcome(cr.db, IF cr.ok THEN OkUnit ELSE Err("SQLite"),
                     IF exists
                     THEN <<DropSql(t.name), CreateSql(t.name, t.def)>>
                     ELSE <<CreateSql(t.name, t.def)>>)
        ELSE Outcome(d, OkUnit, <<>>)

\* Table::create
create(d, t, existing, force) ==
    LET exists == t.name \in existing
        doCreate == ~exists \/ force
        drop == DropSql(t.name)
        make == CreateSql(t.name, t.def)
    IN  IF doCreate
        THEN IF exists
             THEN LET dr == ExecDrop(d, drop)
                      cr == ExecCreate(dr.db, make)
                  IN  IF ~dr.ok
                      THEN Outcome(dr.db, Err("SQLite"), <<drop>>)
                      ELSE IF ~cr.ok
                      THEN Outcome(cr.db, Err("SQLite"), <<drop, make>>)
                      ELSE Outcome(cr.db, OkUnit, <<drop, make>>)
             ELSE LET cr == ExecCreate(d, make)
                  IN  IF ~cr.ok
                      THEN Outcome(cr.db, Err("SQLite"), <<make>>)
                      ELSE Outcome(cr.db, OkUnit, <<make>>)
        ELSE Outcome(d, OkUnit, <<>>)

\* the statement with Abort written as OR IGNORE
InsertSql_abort_as_ignore(name, fields, conflict) ==
    Stmt("INSERT", name, "",
         CASE conflict.kind = "Ignore" -> "IGNORE"
           [] conflict.kind = "Abort" -> "IGNORE"
           [] conflict.kind = "Replace" -> "REPLACE"
           [] OTHER -> "",
         fields, conflict.frag)

\* the statement with Ignore written as OR REPLACE
InsertSql_ignore_as_replace(name, fields, conflict) ==
    Stmt("INSERT", name, "",
         CASE conflict.kind = "Ignore" -> "REPLACE"
           [] conflict.kind = "Abort" -> "ABORT"
           [] conflict.kind = "Replace" -> "REPLACE"
           [] OTHER -> "",
         fields, conflict.frag)

\* the statement with Replace written as OR IGNORE
InsertSql_replace_as_ignore(name, fields, conflict) ==
    Stmt("INSERT", name, "",
         CASE conflict.kind = "Ignore" -> "IGNORE"
           [] conflict.kind = "Abort" -> "ABORT"
           [] conflict.kind = "Replace" -> "IGNORE"
           [] OTHER -> "",
         fields, conflict.frag)

\* the statement Table::insert builds from the conflict resolution
InsertSql(name, fields, conflict) ==
    CASE conflict.kind = "None" ->
           Stmt("INSERT", name, "", "", fields, NoFrag)
      [] conflict.kind = "Ignore" ->
           Stmt("INSERT", name, "", "IGNORE", fields, NoFrag)
      [] conflict.kind = "Abort" ->
           Stmt("INSERT", name, "", "ABORT", fields, NoFrag)
      [] conflict.kind = "Replace" ->
           Stmt("INSERT", name, "", "REPLACE", fields, NoFrag)
      [] conflict.kind = "Upsert" ->
           Stmt("INSERT", name, "", "", fields, conflict.frag)

\* insert that tries the statement a second time when it failed
insert_retry(d, t, row, fields, conflict) ==
    LET sql == InsertSql(t.name, fields, conflict)
        p == to_params_named(row)
        ex == ExecInsert(d, sql, p)
        retry == ExecInsert(ex.db, sql, p)
    IN  IF ~p.ok THEN Outcome(d, Panic, <<>>)
        ELSE IF ex.ok THEN Outcome(ex.db, OkBool(ex.n # 0), <<sql>>)
        ELSE IF retry.ok THEN Outcome(retry.db, OkBool(retry.n # 0), <<sql, sql>>)
        ELSE Outcome(retry.db, Err("SQLite"), <<sql, sql>>)

\* Table::insert; the unwrap of to_params_named panics before the
\* statement is executed
insert(d, t, row, fields, conflict) ==
    LET sql == InsertSql(t.name, fields, conflict)
        p == to_params_named(row)
    IN  IF ~p.ok
        THEN Outcome(d, Panic, <<>>)
        ELSE LET ex == ExecInsert(d, sql, p)
             IN  IF ~ex.ok
                 THEN Outcome(ex.db, Err("SQLite"), <<sql>>)
                 ELSE Outcome(ex.db, OkBool(ex.n # 0), <<sql>>)

RECURSIVE collect_skipping(_, _, _)
\* collect that leaves out the rows that do not deserialize
collect_skipping(dtype, rows, acc) ==
    IF rows = <<>> THEN OkRows(acc)
    ELSE LET r == from_row(dtype, Head(rows))
         IN  collect_skipping(dtype, Tail(rows),
                              IF r.ok THEN Append(acc, r.val) ELSE acc)

RECURSIVE collect_loop(_, _, _)
collect_loop(dtype, rows, acc) ==
    IF rows = <<>> THEN OkRows(acc)
    ELSE LET r == from_row(dtype, Head(rows))
         IN  IF r.ok
             THEN collect_loop(dtype, Tail(rows), Append(acc, r.val))
             ELSE Err("Serialization")

\* rows.collect::<Result<Vec<D>, _>>() over from_row::<D>: the first row
\* that fails ends the iteration with its error
collect(dtype, rows, acc) == collect_loop(dtype, rows, acc)

\* Table::query
query(d, t, where, params, dtype) ==
    LET sql == SelectSql(t.name, where)
        ex == ExecSelect(d, sql, params)
    IN  IF ~ex.ok
        THEN Outcome(d, Err("SQLite"), <<sql>>)
        ELSE Outcome(d, collect(dtype, ex.rows, <<>>), <<sql>>)

(* ------------------------------ the state machine --------------------- *)

\* the arguments of a call; an argument the operation does not take has a
\* fixed value
Call(op, t, existing, force, row, fields, conflict, where, params, dtype) ==
    [op |-> op, t |-> t, tables |-> existing, force |-> force, row |-> row,
     fields |-> fields, conflict |-> conflict, where |-> where,
     params |-> params, dtype |-> dtype]

NoTableArg == new("accounts", GoodDef)
NoRow == [shape |-> "scalar", k |-> 0, v |-> 0]
NoConflict == [kind |-> "None", frag |-> NoFrag]

NoCall ==
    Call("none", NoTableArg, {}, FALSE, NoRow, <<>>, NoConflict, "", <<>>, "")

\* an insert whose record and field list fit each other and the table
WellFormed(c) ==
    /\ c.op = "insert"
    /\ c.row.shape # "scalar"
    /\ to_params_named(c.row).names \subseteq Placeholders(c.fields)

\* the row a well-formed insert offers to the table
RowOf(c) ==
    [k |-> c.row.k,
     v |-> IF c.row.shape = "kv" /\ "v" \in Range(c.fields) THEN c.row.v ELSE 0]

\* the second call repeats the first: the same writing operation on the
\* same table with the same force flag, conflict resolution and key
Repeats(first, second) ==
    /\ first.op \in {"create", "insert"}
    /\ first.op = second.op
    /\ first.t.name = second.t.name
    /\ first.force = second.force
    /\ first.conflict = second.conflict
    /\ first.row.k = second.row.k

Init ==
    /\ db = [n \in Names |-> Absent]
    /\ before = [n \in Names |-> Absent]
    /\ call = NoCall
    /\ res = OkUnit
    /\ stmts = <<>>
    /\ again = FALSE

\* one call: c its arguments, o its outcome on the database as it is
Step(c, o) ==
    /\ again' = Repeats(call, c)
    /\ before' = db
    /\ call' = c
    /\ db' = o.db
    /\ res' = o.res
    /\ stmts' = o.stmts

\* insert and query read the name of the descriptor only
Named == {new(n, GoodDef) : n \in Names}

TablesCall ==
    Step(Call("tables", NoTableArg, {}, FALSE, NoRow, <<>>, NoConflict, "", <<>>, ""),
         tables(db))

CreateCall ==
    \E t \in Table, existing \in SUBSET SnapshotNames, force \in BOOLEAN :
        Step(Call("create", t, existing, force, NoRow, <<>>, NoConflict, "", <<>>, ""),
             create(db, t, existing, force))

InsertCall ==
    \E t \in Named, row \in Records, fields \in FieldLists,
       conflict \in InsertConflictResolution :
        Step(Call("insert", t, {}, FALSE, row, fields, conflict, "", <<>>, ""),
             insert(db, t, row, fields, conflict))

QueryCall ==
    \E t \in Named, where \in Wheres, params \in ParamLists, dtype \in DTypes :
        Step(Call("query", t, {}, FALSE, NoRow, <<>>, NoConflict, where, params, dtype),
             query(db, t, where, params, dtype))

Next == TablesCall \/ CreateCall \/ InsertCall \/ QueryCall

Spec == Init /\ [][Next]_vars

TypeOK ==
    /\ db \in [Names -> [exists : BOOLEAN, rows : Seq([k : Keys, v : Values])]]
    /\ \A n \in Names :
        /\ ~db[n].exists => db[n].rows = <<>>
        /\ \A i, j \in DOMAIN db[n].rows :
                db[n].rows[i].k = db[n].rows[j].k => i = j
    /\ res.status \in {"Ok", "Err", "Panic"}


(* ------------------------------ properties ----------------------------- *)

\* the table the last call was made on, before and after it
Was == before[call.t.name]
Is == db[call.t.name]

InSnapshot == call.t.name \in call.tables
Drop == DropSql(call.t.name)
Make == CreateSql(call.t.name, call.t.def)

\* the rows of a table that carry the key k
RowsFor(rows, k) == SelectSeq(rows, LAMBDA r : r.k = k)

\* C1 as stated: create issues nothing when the name is in the snapshot and
\* force is false, DROP TABLE then CREATE TABLE when the name is in the
\* snapshot and force is true, and CREATE TABLE alone when the name is not in
\* the snapshot.
C1_StatementSequence ==
    call.op = "create" =>
        stmts = IF InSnapshot /\ ~call.force THEN <<>>
                ELSE IF InSnapshot THEN <<Drop, Make>>
                ELSE <<Make>>

\* C1 amended: as C1, but DROP TABLE is followed by CREATE TABLE only when
\* the DROP succeeds; when it fails (the snapshot names a table the database
\* does not have) the DROP is the only statement issued.
C1_StatementSequenceAmended ==
    call.op = "create" =>
        stmts = IF InSnapshot /\ ~call.force THEN <<>>
                ELSE IF ~InSnapshot THEN <<Make>>
                ELSE IF Was.exists THEN <<Drop, Make>>
                ELSE <<Drop>>

C1_Witness ==
    /\ call.op = "create" /\ InSnapshot /\ call.force
    /\ Len(Was.rows) > 0
    /\ stmts = <<Drop, Make>>
    /\ res = OkUnit

\* C2: of two create calls in a row with force = false on a table that
\* exists after the first, the second leaves the rows of the table as they
\* are and issues no DROP, whatever snapshot it is given.
C2_IdempotentCreate ==
    [][(/\ call.op = "create" /\ ~call.force
        /\ call'.op = "create" /\ ~call'.force
        /\ call'.t.name = call.t.name
        /\ db[call.t.name].exists)
       => (/\ db'[call.t.name] = db[call.t.name]
           /\ \A i \in DOMAIN stmts' : stmts'[i].kind # "DROP")]_vars

C2_Witness ==
    /\ again
    /\ call.op = "create" /\ ~call.force /\ ~InSnapshot
    /\ Len(Was.rows) > 0
    /\ res = Err("SQLite")
    /\ Is = Was

\* C3 as stated: create with force = true on a table that holds N > 0 rows
\* always leaves the table existing with 0 rows.
C3_DestructiveForce ==
    (call.op = "create" /\ call.force /\ Len(Was.rows) > 0) => Is = EmptyTable

\* C3 amended: create with force = true on a table that holds N > 0 rows
\* leaves the table existing with 0 rows whenever the call returns Ok.
C3_DestructiveForceAmended ==
    (call.op = "create" /\ call.force /\ Len(Was.rows) > 0 /\ res.status = "Ok")
        => Is = EmptyTable

C3_Witness ==
    /\ call.op = "create" /\ call.force
    /\ Len(Was.rows) = NumKeys
    /\ res = OkUnit
    /\ Is = EmptyTable

\* a key conflict kept the insert from writing
Suppressed == HasKey(Was.rows, call.row.k) /\ db = before

\* C4 as stated: a successful insert that wrote a row returns true, and a
\* successful insert returns false only under Ignore when a key conflict
\* suppressed the write.
C4_ReturnValue ==
    /\ (call.op = "insert" /\ res.status = "Ok" /\ ~res.flag)
            => (call.conflict.kind = "Ignore" /\ Suppressed)
    /\ (call.op = "insert" /\ res.status = "Ok" /\ db # before) => res.flag

\* C4 amended: a successful insert that wrote a row returns true, and a
\* successful insert returns false only when a key conflict suppressed the
\* write, under Ignore or under an Upsert whose fragment does nothing on
\* conflict; under None, Abort and Replace it never returns false.
C4_ReturnValueAmended ==
    /\ (call.op = "insert" /\ res.status = "Ok" /\ ~res.flag)
            => /\ \/ call.conflict.kind = "Ignore"
                  \/ call.conflict = [kind |-> "Upsert", frag |-> DoNothing]
               /\ Suppressed
    /\ (call.op = "insert" /\ res.status = "Ok" /\ db # before) => res.flag

C4_Witness ==
    /\ call.op = "insert"
    /\ call.conflict = [kind |-> "Upsert", frag |-> DoNothing]
    /\ res = OkBool(FALSE)
    /\ Suppressed

\* C5: an insert of a record that cannot be decomposed into named
\* parameters returns a Serialization error, executes no statement and
\* leaves the table unchanged.
C5_SerializationError ==
    (call.op = "insert" /\ call.row.shape = "scalar")
        => (res = Err("Serialization") /\ stmts = <<>> /\ db = before)

\* C6: of two well-formed inserts in a row under Ignore with the same key
\* into a table that did not hold the key, the first returns true, the
\* second returns false and changes no row, and the row stored for the key
\* is the one the first insert offered.
C6_Ignore ==
    [][(/\ WellFormed(call) /\ call.conflict.kind = "Ignore"
        /\ Was.exists /\ ~HasKey(Was.rows, call.row.k)
        /\ WellFormed(call') /\ call'.conflict.kind = "Ignore"
        /\ call'.t.name = call.t.name
        /\ call'.row.k = call.row.k)
       => (/\ res = OkBool(TRUE)
           /\ res' = OkBool(FALSE)
           /\ db' = db
           /\ RowsFor(db'[call.t.name].rows, call.row.k) = <<RowOf(call)>>)]_vars

C6_Witness ==
    /\ again
    /\ WellFormed(call) /\ call.conflict.kind = "Ignore"
    /\ res = OkBool(FALSE)
    /\ db = before
    /\ RowsFor(Is.rows, call.row.k) # <<RowOf(call)>>

\* C7: of two well-formed inserts in a row under Replace with the same key
\* and different payloads, both return true, and afterwards the table holds
\* exactly one row for the key, the one the second insert offered.
C7_Replace ==
    [][(/\ WellFormed(call) /\ call.conflict.kind = "Replace"
        /\ Was.exists
        /\ WellFormed(call') /\ call'.conflict.kind = "Replace"
        /\ call'.t.name = call.t.name
        /\ call'.row.k = call.row.k
        /\ RowOf(call') # RowOf(call))
       => (/\ res = OkBool(TRUE)
           /\ res' = OkBool(TRUE)
           /\ RowsFor(db'[call.t.name].rows, call.row.k) = <<RowOf(call')>>)]_vars

C7_Witness ==
    /\ again
    /\ WellFormed(call) /\ call.conflict.kind = "Replace"
    /\ res = OkBool(TRUE)
    /\ Len(RowsFor(Was.rows, call.row.k)) = 1
    /\ RowsFor(Was.rows, call.row.k) # <<RowOf(call)>>
    /\ RowsFor(Is.rows, call.row.k) = <<RowOf(call)>>

\* C8 as stated: every call of tables, create, insert and query hands
\* exactly one statement to the engine.
C8_OneRoundTrip ==
    call.op # "none" => Len(stmts) = 1

\* C8 amended: tables and query hand exactly one statement to the engine;
\* insert hands one whenever the record serializes and none when it does
\* not; create hands none when the name is in the snapshot and force is
\* false, two (DROP, CREATE) when the name is in the snapshot, force is true
\* and the DROP succeeds, and one otherwise.
C8_RoundTripsAmended ==
    /\ call.op \in {"tables", "query"} => Len(stmts) = 1
    /\ call.op = "insert" =>
            Len(stmts) = IF call.row.shape = "scalar" THEN 0 ELSE 1
    /\ call.op = "create" =>
            Len(stmts) = IF InSnapshot /\ ~call.force THEN 0
                         ELSE IF InSnapshot /\ Was.exists THEN 2
                         ELSE 1

C8_Witness ==
    /\ call.op = "create"
    /\ Len(stmts) = 2
    /\ res = OkUnit

\* the statement of the last query can be prepared and its parameters bound
Prepared ==
    /\ Was.exists
    /\ call.where # WhereBad
    /\ Len(call.params) = (IF call.where = WhereKey THEN 1 ELSE 0)

\* the rows the last query matches, in the order of the engine
Matching ==
    IF call.where = WhereKey
    THEN RowsFor(Was.rows, call.params[1])
    ELSE Was.rows

\* C9: query returns either every matching row, deserialized and in the
\* order of the engine (the empty sequence when nothing matches), or an
\* error and no row; when a row does not deserialize the error is a
\* Serialization error.
C9_AllOrNothing ==
    call.op = "query" =>
        /\ db = before
        /\ ~Prepared => res = Err("SQLite")
        /\ Prepared =>
            IF \A i \in DOMAIN Matching : from_row(call.dtype, Matching[i]).ok
            THEN /\ res.status = "Ok"
                 /\ Len(res.rows) = Len(Matching)
                 /\ \A i \in DOMAIN Matching :
                        res.rows[i] = [type |-> call.dtype,
                                       k |-> Matching[i].k,
                                       v |-> Matching[i].v]
            ELSE res = Err("Serialization")

C9_Witness ==
    /\ call.op = "query" /\ Prepared
    /\ Len(Matching) = 2
    /\ from_row(call.dtype, Matching[1]).ok
    /\ ~from_row(call.dtype, Matching[2]).ok
    /\ res = Err("Serialization")

\* C10: in create with the name in the snapshot and force = true, a failing
\* DROP returns a Storage-Engine error with no CREATE attempted, and a
\* failing CREATE after a successful DROP returns a Storage-Engine error and
\* leaves the table dropped.
C10_DropCreateFailure ==
    (call.op = "create" /\ InSnapshot /\ call.force) =>
        /\ ~Was.exists =>
                (res = Err("SQLite") /\ stmts = <<Drop>> /\ db = before)
        /\ (Was.exists /\ call.t.def = BadDef) =>
                (res = Err("SQLite") /\ stmts = <<Drop, Make>> /\ Is = Absent)

C10_Witness ==
    /\ call.op = "create" /\ InSnapshot /\ call.force
    /\ Len(Was.rows) > 0
    /\ call.t.def = BadDef
    /\ res = Err("SQLite")
    /\ Is = Absent

====
